---- MODULE Spec2Model ----
(***************************************************************************)
(* A model of the Ngaro virtual CPU of src/src/cpu.rs: the word memory,    *)
(* the data and address stacks, the twelve ports with their scoped access  *)
(* guard, the driver's accessors and the fetch-decode-execute loop of      *)
(* CPU::next, one action per opcode.                                       *)
(*                                                                         *)
(* Words are Rust i32 values at their full width.  Arithmetic that leaves  *)
(* the i32 range is build dependent: a build with overflow checks panics,  *)
(* a build without them wraps modulo 2^32.  The variable overflow_checks   *)
(* is chosen once, in Init, and fixes which of the two builds runs.        *)
(***************************************************************************)
EXTENDS Integers, Sequences, FiniteSets, TLC

(***************************************************************************)
(* i32                                                                     *)
(***************************************************************************)
MaxInt == 2147483647
MinInt == -2147483647 - 1

\* a + b leaves the i32 range
AddOverflows(a, b) ==
    \/ b > 0 /\ a > MaxInt - b
    \/ b < 0 /\ a < MinInt - b

\* a + b modulo 2^32, as i32
WrappingAdd(a, b) ==
    IF b > 0 /\ a > MaxInt - b THEN (a + MinInt) + (b + MinInt)
    ELSE IF b < 0 /\ a < MinInt - b THEN ((a + MaxInt) + 1) + ((b + MaxInt) + 1)
    ELSE a + b

\* b - a leaves the i32 range
SubOverflows(b, a) ==
    \/ a > 0 /\ b < MinInt + a
    \/ a < 0 /\ b > MaxInt + a

\* b - a modulo 2^32, as i32
WrappingSub(b, a) ==
    IF a < 0 /\ b > MaxInt + a THEN (b + MinInt) - (a - MinInt)
    ELSE IF a > 0 /\ b < MinInt + a THEN (b - MinInt) - (a + MinInt)
    ELSE b - a

\* the low 16 bits of a word (0..65535) and the rest (a = 65536 * Hi16 + Lo16)
Lo16(a) == a % 65536
Hi16(a) == a \div 65536

\* c * 65536 modulo 2^32, as i32
Shl16(c) ==
    IF c % 65536 >= 32768 THEN ((c % 65536) - 65536) * 65536
    ELSE (c % 65536) * 65536

\* a * b modulo 2^32, as i32, from the 16-bit halves of a and b:
\* al*bl + ((ah*bl + al*bh) mod 2^16) * 2^16
WrappingMul(a, b) ==
    LET al == Lo16(a)
        bl == Lo16(b)
        half == al * (bl \div 2)
        low == WrappingAdd(WrappingAdd(half, half), al * (bl % 2))
        cross == WrappingAdd(Hi16(a) * bl, al * Hi16(b))
    IN  WrappingAdd(low, Shl16(cross))

\* b / a of Rust: the quotient rounded toward zero (a # 0, not MinInt / -1)
TruncDiv(b, a) ==
    IF a = MinInt THEN (IF b = MinInt THEN 1 ELSE 0)
    ELSE LET m == IF a < 0 THEN -a ELSE a
             f == b \div m
             t == IF b < 0 /\ b % m # 0 THEN f + 1 ELSE f
         IN  IF a < 0 THEN -t ELSE t

\* b % a of Rust: the remainder with the sign of b (a # 0, not MinInt % -1)
TruncRem(b, a) == b - a * TruncDiv(b, a)

\* a * b leaves the i32 range
MulOverflows(a, b) ==
    IF a = 0 \/ b = 0 THEN FALSE
    ELSE IF a = -1 THEN b = MinInt
    ELSE IF b = -1 THEN a = MinInt
    ELSE LET r == WrappingMul(a, b)
         IN  ~(TruncRem(r, a) = 0 /\ TruncDiv(r, a) = b)

\* b / a or b % a is not an i32: Rust panics in every build
DivOverflows(b, a) == b = MinInt /\ a = -1

\* bitwise operations on two's complement words, halving the width:
\* a word of width w is a signed upper half and an unsigned lower half
Half(w) == 2 ^ (w \div 2)

RECURSIVE AndU(_, _, _)
AndU(a, b, w) ==
    IF w = 1 THEN a * b
    ELSE AndU(a \div Half(w), b \div Half(w), w \div 2) * Half(w)
         + AndU(a % Half(w), b % Half(w), w \div 2)

RECURSIVE AndS(_, _, _)
AndS(a, b, w) ==
    IF w = 1 THEN -(a * b)
    ELSE AndS(a \div Half(w), b \div Half(w), w \div 2) * Half(w)
         + AndU(a % Half(w), b % Half(w), w \div 2)

BitAnd(a, b) == AndS(a, b, 32)

\* !a: every bit flipped
BitNot(a) == -1 - a

BitOr(a, b) == BitNot(BitAnd(BitNot(a), BitNot(b)))

BitXor(a, b) == BitAnd(BitOr(a, b), BitNot(BitAnd(a, b)))

\* the shift amount `a as usize` is at least the width of the word
ShiftOverflows(a) == a < 0 \/ a >= 32

\* the shift amount a build without overflow checks uses: a modulo 32
ShiftAmount(a) == a % 32

\* b << n modulo 2^32 for 0 <= n < 32
ShiftLeft(b, n) ==
    IF n = 31 THEN (IF b % 2 = 1 THEN MinInt ELSE 0)
    ELSE WrappingMul(b, 2 ^ n)

\* (b as u32 >> n) as i32 for 0 <= n < 32: zeros enter from the left
ShiftRightLogical(b, n) ==
    IF n = 0 THEN b
    ELSE IF b >= 0 THEN (IF n = 31 THEN 0 ELSE b \div (2 ^ n))
    ELSE (((b \div 2) + MaxInt) + 1) \div (2 ^ (n - 1))

(***************************************************************************)
(* Bounds of the model                                                     *)
(***************************************************************************)
\* the length of the memory space, in words (it stands for the padded image)
MemSize == 34
\* no stack grows beyond this depth
MaxDepth == 3
\* the driver pushes words and writes port values at most this many times
MaxInputs == 2
\* next() runs at most this many iterations of its loop in a run
MaxSteps == 6

\* ports: [i32; 12]
NumPorts == 12

(***************************************************************************)
(* State                                                                   *)
(***************************************************************************)
VARIABLES
    file,             \* the bytes of the image file, until Memory::new has
                      \* read and closed it
    memory_space,     \* Memory.memory_space: word k of the Vec is memory_space[k + 1]
    data_stack,       \* Memory.data_stack, the top last
    address_stack,    \* Memory.address_stack, the top last
    ip,               \* CPU.ip
    ports,            \* CPU.ports, indexed 0..11
    pc,               \* who runs: "start" nobody yet (before CPU::new),
                      \* "idle" the driver, "scoped" the driver holding
                      \* a Ports guard, "called" next() before its first
                      \* iteration, "running" next() later on, "panicked"
    ret,              \* what the last call of next() returned: "Wait", "None",
                      \* or "NoCall" before the first return
    overflow_checks,  \* the build panics on i32 overflow (else it wraps)
    inputs,           \* words pushed and port values written by the driver
    steps,            \* iterations next() has run so far
    released,         \* a Ports guard was dropped since next() last returned
    handshake,        \* "new" until a Ports guard is dropped, "released"
                      \* from then on, "zeroed" once the guest has zeroed
                      \* port 0 since the last drop
    last              \* the step taken last and the state it started from

vars == <<file, memory_space, data_stack, address_stack, ip, ports, pc, ret,
          overflow_checks, inputs, steps, released, handshake, last>>

\* The CPU as a value: st is "ok" while the code runs on, "panic" once it
\* has panicked, "none" once next() has returned None and "wait" once it has
\* returned Some(Wait).  Every operation below leaves a value whose st is not
\* "ok" as it is: nothing runs after a panic or a return.
cpu ==
    [mem |-> memory_space, ds |-> data_stack, as |-> address_stack,
     ip |-> ip, ports |-> ports, st |-> "ok"]

ok(s) == s.st = "ok"

panic(s) == IF ok(s) THEN [s EXCEPT !.st = "panic"] ELSE s

\* memory_space.get(addr as usize) is Some: a negative addr casts to a usize
\* beyond any Vec
InMemory(s, addr) == addr >= 0 /\ addr < Len(s.mem)

\* the word memory_space.get(addr as usize) holds
MemoryAt(s, addr) == IF InMemory(s, addr) THEN s.mem[addr + 1] ELSE 0

\* get_memory! with panic! in both of its arms
get_memory_panicking(s, addr, rval) ==
    IF ok(s) /\ ~InMemory(s, addr) THEN panic(s) ELSE s

\* get_memory!(self, addr, rval): the word is MemoryAt(s, addr); outside the
\* memory the macro returns rval from the enclosing function ("none" for
\* `return None`, "panic" for panic!)
get_memory(s, addr, rval) ==
    IF ok(s) /\ ~InMemory(s, addr) THEN [s EXCEPT !.st = rval] ELSE s

\* an i32 operation that overflows panics in a build with overflow checks
arith(s, overflows) ==
    IF ok(s) /\ overflows /\ overflow_checks THEN panic(s) ELSE s

\* the top of a stack (0 stands for the value of a pop that panicked)
Top(stack) == IF stack = <<>> THEN 0 ELSE stack[Len(stack)]

Pop(stack) == SubSeq(stack, 1, Len(stack) - 1)

\* the value pop_data / pop_address returns from s
top_data(s) == Top(s.ds)
top_address(s) == Top(s.as)

\* a pop_data that yields a default value from the empty stack
pop_data_or_default(s) ==
    IF ok(s) THEN [s EXCEPT !.ds = Pop(s.ds)] ELSE s

\* CPU::pop_data: data_stack.pop().expect("Data stack underflow.")
pop_data(s) ==
    IF ~ok(s) THEN s
    ELSE IF s.ds = <<>> THEN panic(s)
    ELSE [s EXCEPT !.ds = Pop(s.ds)]

\* CPU::push_data
push_data(s, data) ==
    IF ok(s) THEN [s EXCEPT !.ds = Append(s.ds, data)] ELSE s

\* CPU::pop_address: address_stack.pop().expect("Address stack underflow.")
pop_address(s) ==
    IF ~ok(s) THEN s
    ELSE IF s.as = <<>> THEN panic(s)
    ELSE [s EXCEPT !.as = Pop(s.as)]

\* CPU::push_address
push_address(s, data) ==
    IF ok(s) THEN [s EXCEPT !.as = Append(s.as, data)] ELSE s

\* self.ip = v
set_ip(s, v) == IF ok(s) THEN [s EXCEPT !.ip = v] ELSE s

\* self.ip += 1
inc_ip(s) == set_ip(arith(s, AddOverflows(s.ip, 1)), WrappingAdd(s.ip, 1))

\* CPU::jump: ip += 1; ip = get_memory!(self, ip, panic!(..)) - 1
jump(s) ==
    LET s1 == inc_ip(s)
        s2 == get_memory(s1, s1.ip, "panic")
        target == MemoryAt(s1, s1.ip)
    IN  set_ip(arith(s2, SubOverflows(target, 1)), WrappingSub(target, 1))

\* let (a, b) = (self.pop_data(), self.pop_data()): a is popped first
popped_a(s) == top_data(s)
popped_b(s) == top_data(pop_data(s))

\* CPU::cond_stack_jump: cond is the value of the closure on (a, b)
cond_stack_jump(s, cond) ==
    LET s2 == pop_data(pop_data(s))
    IN  IF cond THEN jump(s2) ELSE inc_ip(s2)

\* CPU::pop_2_push_1: value is the value of the closure on (a, b), which is
\* pushed; faults: the closure panics on (a, b) in this build
pop_2_push_1(s, value, faults) ==
    LET s2 == pop_data(pop_data(s))
        s3 == IF ok(s2) /\ faults THEN panic(s2) ELSE s2
    IN  push_data(s3, value)

\* ports.get(port as usize) is Some
InPorts(port) == port >= 0 /\ port < NumPorts

(***************************************************************************)
(* The opcodes: the arms of the match in CPU::next, each from the state s  *)
(* in which the instruction at s.ip has been decoded.                      *)
(***************************************************************************)
\* a NOP arm that returns to the caller
NOP_returning(s) == IF ok(s) THEN [s EXCEPT !.st = "wait"] ELSE s

\* NOP => {}
NOP(s) == s

LIT(s) ==
    LET s1 == inc_ip(s)
        s2 == get_memory(s1, s1.ip, "none")
    IN  push_data(s2, MemoryAt(s1, s1.ip))

\* a DUP that pushes the item it has popped once
DUP_once(s) ==
    LET item == top_data(s)
    IN  push_data(pop_data(s), item)

\* DUP: pop the item and push it twice
DUP(s) ==
    LET item == top_data(s)
    IN  push_data(push_data(pop_data(s), item), item)

DROP(s) == pop_data(s)

\* a SWAP that pushes the two entries back in the order it found them
SWAP_back(s) ==
    LET a == popped_a(s)
        b == popped_b(s)
        s2 == pop_data(pop_data(s))
    IN  push_data(push_data(s2, b), a)

\* SWAP: pop a, pop b, push a, push b
SWAP(s) ==
    LET a == popped_a(s)
        b == popped_b(s)
        s2 == pop_data(pop_data(s))
    IN  push_data(push_data(s2, a), b)

PUSH(s) == push_address(pop_data(s), top_data(s))

POP(s) == push_data(pop_address(s), top_address(s))

\* a LOOP that jumps as long as the decremented counter is not negative
LOOP_through_zero(s) ==
    LET s1 == pop_data(s)
        s2 == arith(s1, SubOverflows(top_data(s), 1))
        data == WrappingSub(top_data(s), 1)
    IN  IF data >= 0 THEN push_data(jump(s2), data) ELSE inc_ip(s2)

\* LOOP: data -= 1; if data > 0 { jump(); push_data(data) } else { ip += 1 }
LOOP(s) ==
    LET s1 == pop_data(s)
        s2 == arith(s1, SubOverflows(top_data(s), 1))
        data == WrappingSub(top_data(s), 1)
    IN  IF data > 0 THEN push_data(jump(s2), data) ELSE inc_ip(s2)

JUMP(s) == jump(s)

RETURN(s) == set_ip(pop_address(s), top_address(s))

GT_JUMP(s) == cond_stack_jump(s, popped_b(s) > popped_a(s))

\* an LT_JUMP that compares a with b
LT_JUMP_reversed(s) == cond_stack_jump(s, popped_a(s) < popped_b(s))

\* LT_JUMP: cond_stack_jump(|a, b| b < a)
LT_JUMP(s) == cond_stack_jump(s, popped_b(s) < popped_a(s))

NE_JUMP(s) == cond_stack_jump(s, popped_a(s) # popped_b(s))

EQ_JUMP(s) == cond_stack_jump(s, popped_a(s) = popped_b(s))

FETCH(s) ==
    LET addr == top_data(s)
        s1 == pop_data(s)
        s2 == get_memory(s1, addr, "panic")
    IN  push_data(s2, MemoryAt(s1, addr))

\* a STORE that takes the data from the top and the address below it
STORE_reversed(s) ==
    LET data == popped_a(s)
        addr == popped_b(s)
        s2 == pop_data(pop_data(s))
        s3 == get_memory(s2, addr, "panic")
    IN  IF ok(s3) THEN [s3 EXCEPT !.mem[addr + 1] = data] ELSE s3

\* STORE: pop addr, pop data, *memory_space.get_mut(addr).expect(..) = data
STORE(s) ==
    LET addr == popped_a(s)
        data == popped_b(s)
        s2 == pop_data(pop_data(s))
        s3 == get_memory(s2, addr, "panic")
    IN  IF ok(s3) THEN [s3 EXCEPT !.mem[addr + 1] = data] ELSE s3

ADD(s) ==
    pop_2_push_1(s, WrappingAdd(popped_a(s), popped_b(s)),
                 overflow_checks /\ AddOverflows(popped_a(s), popped_b(s)))

\* a SUBTRACT that computes a - b
SUBTRACT_reversed(s) ==
    pop_2_push_1(s, WrappingSub(popped_a(s), popped_b(s)),
                 overflow_checks /\ SubOverflows(popped_a(s), popped_b(s)))

\* SUBTRACT: pop_2_push_1(|a, b| b-a)
SUBTRACT(s) ==
    pop_2_push_1(s, WrappingSub(popped_b(s), popped_a(s)),
                 overflow_checks /\ SubOverflows(popped_b(s), popped_a(s)))

MULTIPLY(s) ==
    pop_2_push_1(s, WrappingMul(popped_a(s), popped_b(s)),
                 overflow_checks /\ MulOverflows(popped_a(s), popped_b(s)))

\* a DIVMOD that pushes 0 and 0 for a division by 0
DIVMOD_defaulting(s) ==
    LET a == popped_a(s)
        b == popped_b(s)
        s2 == pop_data(pop_data(s))
        s3 == IF ok(s2) /\ DivOverflows(b, a) THEN panic(s2) ELSE s2
    IN  IF ~ok(s3) THEN s3
        ELSE IF a = 0 THEN push_data(push_data(s3, 0), 0)
        ELSE push_data(push_data(s3, TruncRem(b, a)), TruncDiv(b, a))

\* b % a and b / a panic on a = 0 and on MinInt / -1, in every build; the
\* remainder is computed, and pushed, first
DIVMOD(s) ==
    LET a == popped_a(s)
        b == popped_b(s)
        s2 == pop_data(pop_data(s))
        s3 == IF ok(s2) /\ (a = 0 \/ DivOverflows(b, a)) THEN panic(s2) ELSE s2
    IN  IF ok(s3)
        THEN push_data(push_data(s3, TruncRem(b, a)), TruncDiv(b, a))
        ELSE s3

AND(s) == pop_2_push_1(s, BitAnd(popped_a(s), popped_b(s)), FALSE)

OR(s) == pop_2_push_1(s, BitOr(popped_a(s), popped_b(s)), FALSE)

XOR(s) == pop_2_push_1(s, BitXor(popped_a(s), popped_b(s)), FALSE)

SHL(s) ==
    pop_2_push_1(s, ShiftLeft(popped_b(s), ShiftAmount(popped_a(s))),
                 overflow_checks /\ ShiftOverflows(popped_a(s)))

SHR(s) ==
    pop_2_push_1(s, ShiftRightLogical(popped_b(s), ShiftAmount(popped_a(s))),
                 overflow_checks /\ ShiftOverflows(popped_a(s)))

\* a ZERO_EXIT that pops the address stack whatever the top is
ZERO_EXIT_unconditional(s) ==
    LET s1 == pop_data(s)
    IN  set_ip(pop_address(s1), top_address(s1))

\* a ZERO_EXIT that drops a top that is not 0
ZERO_EXIT_dropping(s) ==
    LET data == top_data(s)
        s1 == pop_data(s)
    IN  IF data = 0
        THEN set_ip(pop_address(s1), top_address(s1))
        ELSE s1

\* ZERO_EXIT: pop data; if 0, ip = pop_address(), else push it back
ZERO_EXIT(s) ==
    LET data == top_data(s)
        s1 == pop_data(s)
    IN  IF data = 0
        THEN set_ip(pop_address(s1), top_address(s1))
        ELSE push_data(s1, data)

INC(s) ==
    LET data == top_data(s)
        s1 == pop_data(s)
    IN  push_data(arith(s1, AddOverflows(data, 1)), WrappingAdd(data, 1))

DEC(s) ==
    LET data == top_data(s)
        s1 == pop_data(s)
    IN  push_data(arith(s1, SubOverflows(data, 1)), WrappingSub(data, 1))

\* an IN that leaves the port as it was
IN_keeping(s) ==
    LET port == top_data(s)
        s1 == pop_data(s)
        data == IF InPorts(port) THEN s1.ports[port] ELSE 0
    IN  push_data(s1, data)

\* IN: pop the port, push ports[port] or 0, then ports[port] = 0
IN_(s) ==
    LET port == top_data(s)
        s1 == pop_data(s)
        data == IF InPorts(port) THEN s1.ports[port] ELSE 0
        s2 == push_data(s1, data)
    IN  IF ok(s2) /\ InPorts(port)
        THEN [s2 EXCEPT !.ports[port] = 0]
        ELSE s2

\* an OUT that clears the port, as IN does
OUT_clearing(s) ==
    LET port == popped_a(s)
        s2 == pop_data(pop_data(s))
    IN  IF ok(s2) /\ InPorts(port)
        THEN [s2 EXCEPT !.ports[port] = 0]
        ELSE s2

\* OUT: pop port, pop data, ports.get_mut(port).map(|x| *x = data)
OUT(s) ==
    LET port == popped_a(s)
        data == popped_b(s)
        s2 == pop_data(pop_data(s))
    IN  IF ok(s2) /\ InPorts(port)
        THEN [s2 EXCEPT !.ports[port] = data]
        ELSE s2

\* WAIT with the ip advanced before the return
WAIT_advancing(s) ==
    IF ok(s) /\ s.ports[0] = 0 THEN [inc_ip(s) EXCEPT !.st = "wait"] ELSE s

\* WAIT that returns Some(Wait) whatever port 0 reads
WAIT_unconditional(s) == IF ok(s) THEN [s EXCEPT !.st = "wait"] ELSE s

\* return Some(Wait) while port 0 reads 0
WAIT(s) ==
    IF ok(s) /\ s.ports[0] = 0 THEN [s EXCEPT !.st = "wait"] ELSE s

\* an implicit call that pushes the address after the call
CALL_pushing_next(s) ==
    LET x == MemoryAt(s, s.ip)
        s1 == push_address(s, s.ip + 1)
    IN  set_ip(arith(s1, SubOverflows(x, 1)), WrappingSub(x, 1))

\* any other word x: push the ip, ip = x - 1
CALL(s) ==
    LET x == MemoryAt(s, s.ip)
        s1 == push_address(s, s.ip)
    IN  set_ip(arith(s1, SubOverflows(x, 1)), WrappingSub(x, 1))

\* the words the match of CPU::next names
Opcodes == 0 .. 30

\* One iteration of the loop of CPU::next: decode the word at ip (outside the
\* memory: return None), run its arm, then ip += 1.
execute(s, instruction) ==
    CASE instruction = 0 -> NOP(s)
      [] instruction = 1 -> LIT(s)
      [] instruction = 2 -> DUP(s)
      [] instruction = 3 -> DROP(s)
      [] instruction = 4 -> SWAP(s)
      [] instruction = 5 -> PUSH(s)
      [] instruction = 6 -> POP(s)
      [] instruction = 7 -> LOOP(s)
      [] instruction = 8 -> JUMP(s)
      [] instruction = 9 -> RETURN(s)
      [] instruction = 10 -> GT_JUMP(s)
      [] instruction = 11 -> LT_JUMP(s)
      [] instruction = 12 -> NE_JUMP(s)
      [] instruction = 13 -> EQ_JUMP(s)
      [] instruction = 14 -> FETCH(s)
      [] instruction = 15 -> STORE(s)
      [] instruction = 16 -> ADD(s)
      [] instruction = 17 -> SUBTRACT(s)
      [] instruction = 18 -> MULTIPLY(s)
      [] instruction = 19 -> DIVMOD(s)
      [] instruction = 20 -> AND(s)
      [] instruction = 21 -> OR(s)
      [] instruction = 22 -> XOR(s)
      [] instruction = 23 -> SHL(s)
      [] instruction = 24 -> SHR(s)
      [] instruction = 25 -> ZERO_EXIT(s)
      [] instruction = 26 -> INC(s)
      [] instruction = 27 -> DEC(s)
      [] instruction = 28 -> IN_(s)
      [] instruction = 29 -> OUT(s)
      [] instruction = 30 -> WAIT(s)
      [] OTHER -> CALL(s)

iteration(s) ==
    LET s1 == get_memory(s, s.ip, "none")
    IN  inc_ip(execute(s1, MemoryAt(s, s.ip)))

\* a drop that leaves the ports as they are
drop_nothing(p) == p

\* impl Drop for Ports: ports.get_mut(0).map(|x| *x = 1)
drop(p) == [p EXCEPT ![0] = 1]

(***************************************************************************)
(* Images and inputs                                                       *)
(***************************************************************************)
\* the address of a one-instruction subroutine (a RETURN) in every image: a
\* word outside 0..30, so that it is a call where it stands as an instruction
Subroutine == MemSize - 3
\* an address beyond the memory space
Beyond == MemSize + 6
\* the last address of the memory space
Last == MemSize - 1

\* the opcodes that read the word after them: LIT, LOOP and the jumps
OperandOpcodes == {1, 7, 8, 10, 11, 12, 13}
\* the operand words: an address in the memory, one beyond it, a negative one
\* and the least word
Operands == {0, Beyond, -1, MinInt}
\* a one-instruction program: an opcode without operand, or a word that is a call
Single == (Opcodes \ OperandOpcodes) \cup {Subroutine, Beyond, -1, MinInt}
\* longer programs
Sequences ==
    { <<1, 5, 2, 3>>,                  \* LIT 5; DUP; DROP
      <<1, MinInt, 2, 3>>,             \* LIT MinInt; DUP; DROP
      <<4, 4>>,                        \* SWAP; SWAP
      <<2, 17>>,                       \* DUP; SUBTRACT
      <<2, 19>>,                       \* DUP; DIVMOD
      <<5, 25>>,                       \* PUSH; ZERO_EXIT
      <<1, MaxInt, 5, 25>>,            \* LIT MaxInt; PUSH; ZERO_EXIT
      <<5, 9>>,                        \* PUSH; RETURN
      <<5, 6>>,                        \* PUSH; POP
      <<29, 28>>,                      \* OUT; IN
      <<29, 30>>,                      \* OUT; WAIT
      <<28, 30>>,                      \* IN; WAIT
      <<1, 5, 1, 3, 17>>,              \* LIT 5; LIT 3; SUBTRACT
      <<1, 7, 1, 2, 19>>,              \* LIT 7; LIT 2; DIVMOD
      <<1, 3, 1, 12, 15, 1, 12, 14>> } \* LIT 3; LIT 12; STORE; LIT 12; FETCH
Programs ==
    {<<first>> : first \in Single}
        \cup {<<first, second>> : first \in OperandOpcodes, second \in Operands}
        \cup Sequences
\* the words the driver pushes
DriverWords == {-1, 0, 3, MinInt}
\* the port values the driver writes: <<port, value>>
DriverWrites == {<<0, 0>>, <<NumPorts - 1, 2>>}
\* the words the driver pushes through the stack borrowed with the ports
ScopeWords == {3}

\* An image: a program, then a WAIT and a JUMP back to that WAIT, NOPs up to
\* Subroutine and a RETURN there.
Image(program) ==
    [k \in 1 .. Subroutine + 1 |->
        CASE k <= Len(program) -> program[k]
          [] k = Len(program) + 1 -> 30
          [] k = Len(program) + 2 -> 8
          [] k = Len(program) + 3 -> Len(program)
          [] k = Subroutine + 1 -> 9
          [] OTHER -> 0]

\* An image that fills the memory space: a JUMP to the last address, and
\* there an opcode whose operand would lie beyond the memory.
FullImage(opcode) ==
    [k \in 1 .. MemSize |->
        CASE k = 1 -> 8
          [] k = 2 -> Last
          [] k = MemSize -> opcode
          [] OTHER -> 0]

Images ==
    {Image(program) : program \in Programs}
        \cup {FullImage(opcode) : opcode \in {1, 7, 8}}

\* The bytes of a word in the file, the least significant first.
Bytes(word) ==
    <<word % 256, (word \div 256) % 256, (word \div 65536) % 256,
      (word \div 16777216) % 256>>

\* The file that holds the words of an image.
RECURSIVE Encode(_)
Encode(image) ==
    IF image = <<>> THEN <<>>
    ELSE Encode(SubSeq(image, 1, Len(image) - 1)) \o Bytes(image[Len(image)])

\* An image longer than the least capacity: two JUMPs lead to a WAIT in its
\* last word.
LargeImage == FullImage(8) \o <<MemSize + 1, 30>>

\* The image files: those of the images; some that end in a part of a word;
\* one longer than the least capacity.
Files ==
    {Encode(image) : image \in Images}
        \cup {Encode(image) \o tail :
                 image \in {<<>>, Image(<<0>>)}, tail \in {<<1>>, <<1, 2, 3>>}}
        \cup {Encode(LargeImage)}

\* read_i32 decoding the four bytes from the most significant first
read_i32_big_endian(bytes, k) ==
    LET b0 == bytes[4 * k - 3]
        b1 == bytes[4 * k - 2]
        b2 == bytes[4 * k - 1]
        b3 == bytes[4 * k]
    IN  b3 + 256 * b2 + 65536 * b1
           + 16777216 * (IF b0 >= 128 THEN b0 - 256 ELSE b0)

\* file.read_i32::<LittleEndian>(): the k-th word of the bytes, the least
\* significant byte first, the most significant one holding the sign
read_i32(bytes, k) ==
    LET b0 == bytes[4 * k - 3]
        b1 == bytes[4 * k - 2]
        b2 == bytes[4 * k - 1]
        b3 == bytes[4 * k]
    IN  b0 + 256 * b1 + 65536 * b2
           + 16777216 * (IF b3 >= 128 THEN b3 - 256 ELSE b3)

\* the loop of Memory::new: the words read until UnexpectedEOF, which the
\* end of the file and a last word short of four bytes both give
Words(bytes) == [k \in 1 .. Len(bytes) \div 4 |-> read_i32(bytes, k)]

\* the padding of Memory::new: the words read, then zeros up to the capacity
\* max(size, 1024*1024), which MemSize stands for (Vec::with_capacity gives
\* a Vec of i32 the capacity asked for)
Load(image) ==
    [k \in 1 .. (IF Len(image) > MemSize THEN Len(image) ELSE MemSize) |->
        IF k <= Len(image) THEN image[k] ELSE 0]

\* Memory::new
Memory_new(bytes) == Load(Words(bytes))

\* what an iteration of next() leaves in last: the opcode and the ip and the
\* stacks it started from
Record(name) ==
    [act |-> name, ip |-> ip, ds |-> data_stack, as |-> address_stack,
     p0 |-> ports[0], pc |-> pc, was |-> [act |-> last.act, ds |-> last.ds]]

\* what a step of the driver leaves in last: its name and port 0 before it
DriverRecord(name) ==
    [act |-> name, ip |-> ip, ds |-> <<>>, as |-> <<>>, p0 |-> ports[0],
     pc |-> pc, was |-> [act |-> "driver", ds |-> <<>>]]

\* the ports of CPU::new: [0; 12]
NoPorts == [i \in 0 .. NumPorts - 1 |-> 0]

\* Before CPU::new(path): the image file is there, the CPU is not.
Init ==
    /\ file \in Files
    /\ memory_space = <<>>
    /\ data_stack = <<>>
    /\ address_stack = <<>>
    /\ ip = 0
    /\ ports = NoPorts
    /\ pc = "start"
    /\ ret = "NoCall"
    /\ overflow_checks \in BOOLEAN
    /\ inputs = 0
    /\ steps = 0
    /\ released = FALSE
    /\ handshake = "new"
    /\ last = [act |-> "start", ip |-> 0, ds |-> <<>>, as |-> <<>>, p0 |-> 0,
               pc |-> "start", was |-> [act |-> "driver", ds |-> <<>>]]

\* CPU::new(path): Memory::new reads the file, which is closed when it
\* returns; ip 0, the ports all 0.  last keeps the length of the file.
New ==
    /\ pc = "start"
    /\ memory_space' = Memory_new(file)
    /\ file' = <<>>
    /\ data_stack' = <<>>
    /\ address_stack' = <<>>
    /\ ip' = 0
    /\ ports' = NoPorts
    /\ pc' = "idle"
    /\ last' = [act |-> "new", ip |-> 0, ds |-> <<>>, as |-> <<>>, p0 |-> 0,
                pc |-> "start", was |-> [act |-> "driver", ds |-> <<>>],
                bytes |-> Len(file)]
    /\ UNCHANGED <<ret, overflow_checks, inputs, steps, released, handshake>>

(***************************************************************************)
(* The driver                                                              *)
(***************************************************************************)
\* debug::opcode_to_name: the table NAMES, NAMES[k + 1] here for its entry k
NAMES ==
    <<"NOP", "LIT", "DUP", "DROP", "SWAP", "PUSH", "POP", "LOOP", "JUMP",
      "RETURN", "LT_JUMP", "GT_JUMP", "NE_JUMP", "EQ_JUMP", "FETCH", "STORE",
      "ADD", "SUBTRACT", "MULTIPLY", "DIVMOD", "AND", "OR", "XOR", "SHL",
      "SHR", "ZERO_EXIT", "INC", "DEC", "IN", "OUT", "WAIT">>

\* NAMES.get(opcode as usize).map_or("CALL", |&x| x): a negative opcode casts
\* to a usize beyond the table
opcode_to_name(opcode) ==
    IF opcode >= 0 /\ opcode < Len(NAMES) THEN NAMES[opcode + 1] ELSE "CALL"

\* the words opcode_to_name is called on
TracedWords == Opcodes \cup {31, Subroutine, Beyond, MaxInt, -1, MinInt}

\* debug::opcode_to_name(opcode), a pure function: called on any word, once
\* the CPU is there
OpcodeToName ==
    /\ pc = "idle"
    /\ last.act = "new"
    /\ \E opcode \in TracedWords :
          last' = DriverRecord("opcode_to_name")
                     @@ [opcode |-> opcode, name |-> opcode_to_name(opcode)]
    /\ UNCHANGED <<handshake, file, memory_space, data_stack, address_stack, ip, ports,
                   pc, ret, overflow_checks, inputs, steps, released>>

\* cpu.push_data(data)
DriverPush ==
    /\ pc = "idle"
    /\ inputs < MaxInputs
    /\ Len(data_stack) < MaxDepth
    /\ \E data \in DriverWords : data_stack' = push_data(cpu, data).ds
    /\ inputs' = inputs + 1
    /\ last' = DriverRecord("push_data")
    /\ UNCHANGED <<handshake, file, memory_space, address_stack, ip, ports, pc, ret,
                   overflow_checks, steps, released>>

\* cpu.pop_data(): a panic on the empty stack
DriverPop ==
    /\ pc = "idle"
    /\ data_stack' = pop_data(cpu).ds
    /\ pc' = IF ok(pop_data(cpu)) THEN "idle" ELSE "panicked"
    /\ last' = DriverRecord("pop_data")
    /\ UNCHANGED <<handshake, file, memory_space, address_stack, ip, ports, ret,
                   overflow_checks, inputs, steps, released>>

\* let (ports, stack) = cpu.ports_and_stack(): the guard and the borrow live
\* until DropPorts
PortsAndStack ==
    /\ pc = "idle"
    /\ pc' = "scoped"
    /\ last' = DriverRecord("ports_and_stack")
    /\ UNCHANGED <<handshake, file, memory_space, data_stack, address_stack, ip, ports, ret,
                   overflow_checks, inputs, steps, released>>

\* ports[i] = v through DerefMut
ScopeWrite ==
    /\ pc = "scoped"
    /\ inputs < MaxInputs
    /\ \E w \in DriverWrites : ports' = [ports EXCEPT ![w[1]] = w[2]]
    /\ inputs' = inputs + 1
    /\ last' = DriverRecord("write")
    /\ UNCHANGED <<handshake, file, memory_space, data_stack, address_stack, ip, pc, ret,
                   overflow_checks, steps, released>>

\* stack.push(v) through the &mut Vec
ScopePush ==
    /\ pc = "scoped"
    /\ inputs < MaxInputs
    /\ Len(data_stack) < MaxDepth
    /\ \E data \in ScopeWords : data_stack' = Append(data_stack, data)
    /\ inputs' = inputs + 1
    /\ last' = DriverRecord("stack_push")
    /\ UNCHANGED <<handshake, file, memory_space, address_stack, ip, ports, pc, ret,
                   overflow_checks, steps, released>>

\* stack.pop() through the &mut Vec: None on the empty stack, no panic
ScopePop ==
    /\ pc = "scoped"
    /\ data_stack' = Pop(data_stack)
    /\ last' = DriverRecord("stack_pop")
    /\ UNCHANGED <<handshake, file, memory_space, address_stack, ip, ports, pc, ret,
                   overflow_checks, inputs, steps, released>>

\* the Ports guard goes out of scope
DropPorts ==
    /\ pc = "scoped"
    /\ ports' = drop(ports)
    /\ pc' = "idle"
    /\ released' = TRUE
    /\ handshake' = "released"
    /\ last' = DriverRecord("drop")
    /\ UNCHANGED <<file, memory_space, data_stack, address_stack, ip, ret,
                   overflow_checks, inputs, steps>>

\* cpu.next() is entered
CallNext ==
    /\ pc = "idle"
    /\ pc' = "called"
    /\ last' = DriverRecord("next")
    /\ UNCHANGED <<handshake, file, memory_space, data_stack, address_stack, ip, ports, ret,
                   overflow_checks, inputs, steps, released>>

(***************************************************************************)
(* CPU::next, an iteration of its loop at a time                           *)
(***************************************************************************)
InNext == pc \in {"called", "running"}

\* the iteration of next() about to run zeroes port 0: an IN that pops the
\* port 0, or an OUT that pops the port 0 and the data 0
ZeroesPort0 ==
    /\ InMemory(cpu, ip)
    /\ \/ /\ MemoryAt(cpu, ip) = 28
          /\ data_stack # <<>>
          /\ Top(data_stack) = 0
       \/ /\ MemoryAt(cpu, ip) = 29
          /\ Len(data_stack) >= 2
          /\ Top(data_stack) = 0
          /\ Top(Pop(data_stack)) = 0

\* the state an iteration leaves behind
Commit(s, name) ==
    /\ steps < MaxSteps
    /\ Len(s.ds) <= MaxDepth
    /\ Len(s.as) <= MaxDepth
    /\ memory_space' = s.mem
    /\ data_stack' = s.ds
    /\ address_stack' = s.as
    /\ ip' = s.ip
    /\ ports' = s.ports
    /\ pc' = CASE s.st = "ok" -> "running"
               [] s.st = "panic" -> "panicked"
               [] OTHER -> "idle"
    /\ ret' = CASE s.st = "wait" -> "Wait"
                [] s.st = "none" -> "None"
                [] OTHER -> ret
    /\ released' = (released /\ s.st \in {"ok", "panic"})
    /\ handshake' = IF handshake = "released" /\ ZeroesPort0 /\ s.st = "ok"
                    THEN "zeroed"
                    ELSE handshake
    /\ last' = Record(name)
    /\ steps' = steps + 1
    /\ UNCHANGED <<file, overflow_checks, inputs>>

\* next() is about to decode this word at ip
Decodes(instruction) ==
    /\ InNext
    /\ InMemory(cpu, ip)
    /\ MemoryAt(cpu, ip) = instruction

\* the iteration whose ip is outside the memory: return None
StepOutside ==
    /\ InNext
    /\ ~InMemory(cpu, ip)
    /\ Commit(iteration(cpu), "outside")

\* the iteration that decodes a word outside 0..30: an implicit call
StepCALL ==
    /\ InNext
    /\ InMemory(cpu, ip)
    /\ MemoryAt(cpu, ip) \notin Opcodes
    /\ Commit(iteration(cpu), "CALL")

\* the iterations that decode the opcodes 0..30
StepNOP ==
    /\ Decodes(0)
    /\ Commit(iteration(cpu), "NOP")

StepLIT ==
    /\ Decodes(1)
    /\ Commit(iteration(cpu), "LIT")

StepDUP ==
    /\ Decodes(2)
    /\ Commit(iteration(cpu), "DUP")

StepDROP ==
    /\ Decodes(3)
    /\ Commit(iteration(cpu), "DROP")

StepSWAP ==
    /\ Decodes(4)
    /\ Commit(iteration(cpu), "SWAP")

StepPUSH ==
    /\ Decodes(5)
    /\ Commit(iteration(cpu), "PUSH")

StepPOP ==
    /\ Decodes(6)
    /\ Commit(iteration(cpu), "POP")

StepLOOP ==
    /\ Decodes(7)
    /\ Commit(iteration(cpu), "LOOP")

StepJUMP ==
    /\ Decodes(8)
    /\ Commit(iteration(cpu), "JUMP")

StepRETURN ==
    /\ Decodes(9)
    /\ Commit(iteration(cpu), "RETURN")

StepGT_JUMP ==
    /\ Decodes(10)
    /\ Commit(iteration(cpu), "GT_JUMP")

StepLT_JUMP ==
    /\ Decodes(11)
    /\ Commit(iteration(cpu), "LT_JUMP")

StepNE_JUMP ==
    /\ Decodes(12)
    /\ Commit(iteration(cpu), "NE_JUMP")

StepEQ_JUMP ==
    /\ Decodes(13)
    /\ Commit(iteration(cpu), "EQ_JUMP")

StepFETCH ==
    /\ Decodes(14)
    /\ Commit(iteration(cpu), "FETCH")

StepSTORE ==
    /\ Decodes(15)
    /\ Commit(iteration(cpu), "STORE")

StepADD ==
    /\ Decodes(16)
    /\ Commit(iteration(cpu), "ADD")

StepSUBTRACT ==
    /\ Decodes(17)
    /\ Commit(iteration(cpu), "SUBTRACT")

StepMULTIPLY ==
    /\ Decodes(18)
    /\ Commit(iteration(cpu), "MULTIPLY")

StepDIVMOD ==
    /\ Decodes(19)
    /\ Commit(iteration(cpu), "DIVMOD")

StepAND ==
    /\ Decodes(20)
    /\ Commit(iteration(cpu), "AND")

StepOR ==
    /\ Decodes(21)
    /\ Commit(iteration(cpu), "OR")

StepXOR ==
    /\ Decodes(22)
    /\ Commit(iteration(cpu), "XOR")

StepSHL ==
    /\ Decodes(23)
    /\ Commit(iteration(cpu), "SHL")

StepSHR ==
    /\ Decodes(24)
    /\ Commit(iteration(cpu), "SHR")

StepZERO_EXIT ==
    /\ Decodes(25)
    /\ Commit(iteration(cpu), "ZERO_EXIT")

StepINC ==
    /\ Decodes(26)
    /\ Commit(iteration(cpu), "INC")

StepDEC ==
    /\ Decodes(27)
    /\ Commit(iteration(cpu), "DEC")

StepIN ==
    /\ Decodes(28)
    /\ Commit(iteration(cpu), "IN")

StepOUT ==
    /\ Decodes(29)
    /\ Commit(iteration(cpu), "OUT")

StepWAIT ==
    /\ Decodes(30)
    /\ Commit(iteration(cpu), "WAIT")

Driver ==
    \/ New
    \/ OpcodeToName
    \/ DriverPush
    \/ DriverPop
    \/ PortsAndStack
    \/ ScopeWrite
    \/ ScopePush
    \/ ScopePop
    \/ DropPorts
    \/ CallNext

Engine ==
    \/ StepOutside
    \/ StepCALL
    \/ StepNOP
    \/ StepLIT
    \/ StepDUP
    \/ StepDROP
    \/ StepSWAP
    \/ StepPUSH
    \/ StepPOP
    \/ StepLOOP
    \/ StepJUMP
    \/ StepRETURN
    \/ StepGT_JUMP
    \/ StepLT_JUMP
    \/ StepNE_JUMP
    \/ StepEQ_JUMP
    \/ StepFETCH
    \/ StepSTORE
    \/ StepADD
    \/ StepSUBTRACT
    \/ StepMULTIPLY
    \/ StepDIVMOD
    \/ StepAND
    \/ StepOR
    \/ StepXOR
    \/ StepSHL
    \/ StepSHR
    \/ StepZERO_EXIT
    \/ StepINC
    \/ StepDEC
    \/ StepIN
    \/ StepOUT
    \/ StepWAIT

Next == Driver \/ Engine

Spec == Init /\ [][Next]_vars

(***************************************************************************)
(* Properties                                                              *)
(***************************************************************************)
\* next() is about to decode a WAIT
AtWAIT == InMemory(cpu, ip) /\ MemoryAt(cpu, ip) = 30

\* C1: an iteration of next() returns Some(Wait) exactly when it decodes a
\* WAIT while port 0 reads 0, and that iteration leaves ip (still the address
\* of the WAIT), the memory, both stacks and every port as they were.
C1_WaitExactlyAtBlockedWAIT ==
    [][InNext =>
        /\ (pc' = "idle" /\ ret' = "Wait") <=> (AtWAIT /\ ports[0] = 0)
        /\ (pc' = "idle" /\ ret' = "Wait") =>
              UNCHANGED <<ip, memory_space, data_stack, address_stack, ports>>
      ]_vars

\* next() has just returned Some(Wait), with words on the data stack
C1_Witness ==
    /\ pc = "idle"
    /\ ret = "Wait"
    /\ last.act = "WAIT"
    /\ ip = last.ip
    /\ data_stack # <<>>

\* C2: when next() has returned Some(Wait), a Ports guard has been dropped
\* since, and next() is called again, its first iteration decodes the same
\* WAIT, does not return, changes nothing and leaves ip at the next address.
C2_ReleasedWAITIsNoOp ==
    [][(pc = "called" /\ ret = "Wait" /\ released) =>
        /\ AtWAIT
        /\ pc' = "running"
        /\ ip' = ip + 1
        /\ UNCHANGED <<ret, memory_space, data_stack, address_stack, ports>>
      ]_vars

\* the first iteration after a Wait and a release has passed the WAIT
C2_Witness ==
    /\ pc = "running"
    /\ ret = "Wait"
    /\ released
    /\ last.act = "WAIT"
    /\ last.pc = "called"
    /\ last.p0 = 1
    /\ ip = last.ip + 1

\* C3: when a Ports guard is dropped, port 0 holds 1 whatever it held in the
\* scope, and the ports 1..11 hold what they held.
C3_DropSetsPort0 ==
    [][(pc = "scoped" /\ pc' = "idle") =>
        /\ ports'[0] = 1
        /\ \A i \in 1 .. NumPorts - 1 : ports'[i] = ports[i]
      ]_vars

\* a guard was dropped while port 0 held 0 and port 11 what the driver wrote
C3_Witness ==
    /\ last.act = "drop"
    /\ last.p0 = 0
    /\ ports[0] = 1
    /\ ports[NumPorts - 1] = 2

\* next() is about to decode a LIT whose operand word is outside the memory
AtLITWithoutOperand ==
    /\ InMemory(cpu, ip)
    /\ MemoryAt(cpu, ip) = 1
    /\ ~InMemory(cpu, ip + 1)

Consumes(opcode) ==
    CASE opcode \in {2, 3, 5, 7, 14, 25, 26, 27, 28} -> 1
      [] opcode \in {4, 10, 11, 12, 13, 15, 29} \cup (16 .. 24) -> 2
      [] OTHER -> 0

\* next() is about to decode an opcode that pops the empty address stack
PopsEmptyAddressStack ==
    /\ InNext
    /\ InMemory(cpu, ip)
    /\ address_stack = <<>>
    /\ \/ MemoryAt(cpu, ip) \in {6, 9}
       \/ MemoryAt(cpu, ip) = 25 /\ data_stack # <<>> /\ Top(data_stack) = 0

\* C6: a pop from an empty stack is a panic and yields no value: the driver's
\* pop_data on an empty data stack; an opcode decoded while the data stack
\* holds fewer entries than it pops, which pushes nothing; and POP, RETURN
\* and ZERO_EXIT (top == 0) decoded while the address stack is empty.
C6_UnderflowIsFatal ==
    [][/\ (pc = "idle" /\ last'.act = "pop_data" /\ data_stack = <<>>) =>
              (pc' = "panicked" /\ data_stack' = <<>>)
       /\ (/\ InNext
           /\ InMemory(cpu, ip)
           /\ Len(data_stack) < Consumes(MemoryAt(cpu, ip))) =>
              (pc' = "panicked" /\ data_stack' = <<>>
                  /\ UNCHANGED <<address_stack, memory_space, ports>>)
       /\ PopsEmptyAddressStack =>
              (pc' = "panicked" /\ address_stack' = <<>>
                  /\ Len(data_stack') <= Len(data_stack))
      ]_vars

\* a SWAP decoded over a single entry has panicked on its second pop
C6_Witness ==
    /\ pc = "panicked"
    /\ last.act = "SWAP"
    /\ Len(last.ds) = 1
    /\ data_stack = <<>>

\* C7: a DIVMOD decoded with 0 on top of at least two entries panics: the two
\* entries are popped, no remainder and no quotient is pushed, and nothing
\* else changes.
C7_DivisionByZeroIsFatal ==
    [][(Decodes(19) /\ Len(data_stack) >= 2 /\ Top(data_stack) = 0) =>
        /\ pc' = "panicked"
        /\ data_stack' = Pop(Pop(data_stack))
        /\ UNCHANGED <<ip, address_stack, memory_space, ports, ret>>
      ]_vars

\* a DIVMOD of 3 by 0 has panicked
C7_Witness ==
    /\ pc = "panicked"
    /\ last.act = "DIVMOD"
    /\ Len(last.ds) >= 2
    /\ Top(last.ds) = 0
    /\ Top(Pop(last.ds)) = 3

\* the entries [..., b, a] an arm with two pops finds: a on top, b below it
OnTop == Top(data_stack)
Below == Top(Pop(data_stack))

\* the data stack after [..., b, a] has been replaced by the words in pushed
Replaced(pushed) == Pop(Pop(data_stack)) \o pushed

\* next() carries on with the instruction at the next address
Continues == pc' = "running" /\ ip' = ip + 1

\* C8 as stated: SUBTRACT replaces [..., b, a] by the integer b - a, and
\* DIVMOD with a # 0 by the remainder and the quotient of b by a; both
\* continue at the next address.  (A word holds b - a, or b / a, only when
\* that integer is in the range of i32.)
C8_SubtractAndDivmod ==
    [][/\ (Decodes(17) /\ Len(data_stack) >= 2) =>
              /\ ~SubOverflows(Below, OnTop)
              /\ data_stack' = Replaced(<<Below - OnTop>>)
              /\ Continues
       /\ (Decodes(19) /\ Len(data_stack) >= 2 /\ OnTop # 0) =>
              /\ ~DivOverflows(Below, OnTop)
              /\ data_stack' =
                     Replaced(<<TruncRem(Below, OnTop), TruncDiv(Below, OnTop)>>)
              /\ Continues
      ]_vars

\* C8: for a data stack [..., b, a]: SUBTRACT, when b - a is in the range of
\* i32, replaces the two entries by b - a; DIVMOD, when a # 0 and not
\* (b = -2^31 and a = -1), replaces them by the remainder b % a and then the
\* quotient b / a (truncated toward zero), quotient on top; both leave the
\* entries below, the address stack, the memory and the ports untouched and
\* continue at the next address.
C8_SubtractAndDivmodInRange ==
    [][/\ (/\ Decodes(17)
           /\ Len(data_stack) >= 2
           /\ ~SubOverflows(Below, OnTop)) =>
              /\ data_stack' = Replaced(<<Below - OnTop>>)
              /\ Continues
              /\ UNCHANGED <<address_stack, memory_space, ports>>
       /\ (/\ Decodes(19)
           /\ Len(data_stack) >= 2
           /\ OnTop # 0
           /\ ~DivOverflows(Below, OnTop)) =>
              /\ data_stack' =
                     Replaced(<<TruncRem(Below, OnTop), TruncDiv(Below, OnTop)>>)
              /\ Continues
              /\ UNCHANGED <<address_stack, memory_space, ports>>
      ]_vars

\* SUBTRACT has turned [3, 5, 3] into [3, 2]
C8_Witness ==
    /\ pc = "running"
    /\ last.act = "SUBTRACT"
    /\ last.ds = <<3, 5, 3>>
    /\ data_stack = <<3, 2>>
    /\ ip = last.ip + 1

\* next() is about to decode a word outside 0..30
AtCall == InNext /\ InMemory(cpu, ip) /\ MemoryAt(cpu, ip) \notin Opcodes

\* next() is about to decode a RETURN with the address of a call on top
AtReturn ==
    /\ Decodes(9)
    /\ address_stack # <<>>
    /\ InMemory(cpu, Top(address_stack))

\* the address stack, data stack and ip an implicit call to x from ip leaves
Called(x) ==
    /\ pc' = "running"
    /\ address_stack' = Append(address_stack, ip)
    /\ ip' = x
    /\ UNCHANGED <<data_stack, memory_space, ports>>

\* RETURN pops the address r and next() carries on at r + 1
Returned ==
    /\ pc' = "running"
    /\ address_stack' = Pop(address_stack)
    /\ ip' = Top(address_stack) + 1
    /\ UNCHANGED <<data_stack, memory_space, ports>>

\* C9 as stated: a word x outside 0..30 decoded at p pushes p on the address
\* stack, leaves the data stack and makes x the next address decoded; a
\* RETURN pops the address p of a call and makes p + 1 the next.
C9_ImplicitCall ==
    [][/\ AtCall => Called(MemoryAt(cpu, ip))
       /\ AtReturn => Returned
      ]_vars

\* C9: a word x outside 0..30 decoded at p, except x = -2^31 in a build with
\* overflow checks (where x - 1 panics), pushes p on the address stack,
\* leaves the data stack and makes x the next address decoded; a RETURN pops
\* the address p of a call and makes p + 1 the next.
C9_ImplicitCallExceptMinInt ==
    [][/\ (AtCall /\ ~(MemoryAt(cpu, ip) = MinInt /\ overflow_checks)) =>
              Called(MemoryAt(cpu, ip))
       /\ AtReturn => Returned
      ]_vars

\* the subroutine called from address 0 has returned to address 1
C9_Witness ==
    /\ pc = "running"
    /\ last.act = "RETURN"
    /\ last.ip = Subroutine
    /\ last.as = <<0>>
    /\ address_stack = <<>>
    /\ ip = 1

\* next() is about to decode a LOOP with the counter c on the data stack
AtLoop == Decodes(7) /\ data_stack # <<>>

\* LOOP has jumped to its operand and left the counter c - 1
Looped ==
    /\ pc' = "running"
    /\ data_stack' = Append(Pop(data_stack), Top(data_stack) - 1)
    /\ ip' = MemoryAt(cpu, ip + 1)
    /\ UNCHANGED <<address_stack, memory_space, ports>>

\* LOOP has fallen through to p + 2 and removed the counter
FellThrough ==
    /\ pc' = "running"
    /\ data_stack' = Pop(data_stack)
    /\ ip' = ip + 2
    /\ UNCHANGED <<address_stack, memory_space, ports>>

\* C10 as stated: LOOP at p pops the counter c; if c - 1 > 0 it jumps and
\* leaves c - 1, otherwise it falls through to p + 2 with the counter
\* removed.
C10_Loop ==
    [][AtLoop => IF Top(data_stack) > 1 THEN Looped ELSE FellThrough]_vars

\* C10: LOOP at p pops the counter c, c # -2^31: if c - 1 > 0 and the operand
\* word at p + 1 is in the memory (and is not -2^31 in a build with overflow
\* checks) it jumps and leaves c - 1; if c - 1 <= 0 it falls through to p + 2
\* with the counter removed.  A counter of 1 falls through at once; a counter
\* of 3 jumps twice, leaving 2, then 1, and then falls through.
C10_LoopInRange ==
    [][(AtLoop /\ Top(data_stack) # MinInt) =>
        IF Top(data_stack) > 1
        THEN (/\ InMemory(cpu, ip + 1)
              /\ ~(MemoryAt(cpu, ip + 1) = MinInt /\ overflow_checks)) =>
                 Looped
        ELSE FellThrough
      ]_vars

\* LOOP 0 at address 0, entered with the counter 3, has jumped twice and has
\* now fallen through to address 2 with the counter removed
C10_Witness ==
    /\ pc = "running"
    /\ memory_space[1] = 7
    /\ memory_space[2] = 0
    /\ steps = 3
    /\ last.act = "LOOP"
    /\ last.ip = 0
    /\ last.ds = <<1>>
    /\ data_stack = <<>>
    /\ ip = 2


\* next() is about to decode an IN with the port number on the data stack
AtIn == Decodes(28) /\ data_stack # <<>>

\* what the port n holds for IN: ports.get(n as usize).map_or(0, ..)
Held(n) == IF InPorts(n) THEN ports[n] ELSE 0

\* the step writes the port i: the driver in its scope (the drop of the guard
\* included), or an IN or an OUT that has popped the port number i
WritesPort(i) ==
    \/ pc = "scoped"
    \/ Decodes(28) /\ data_stack # <<>> /\ Top(data_stack) = i
    \/ Decodes(29) /\ data_stack # <<>> /\ Top(data_stack) = i

\* C11: IN pops a port number n and pushes the value the port n held; then
\* the port n holds 0, whatever it held, and every other port holds what it
\* held.  Every port starts at 0 and changes only when it is written, so an
\* IN on a port never written pushes 0.
C11_InReadsAndZeroes ==
    /\ \A i \in 0 .. NumPorts - 1 : ports[i] = 0
    /\ [][/\ AtIn =>
                /\ pc' = "running"
                /\ ip' = ip + 1
                /\ data_stack' =
                       Append(Pop(data_stack), Held(Top(data_stack)))
                /\ ports' = [i \in 0 .. NumPorts - 1 |->
                                IF i = Top(data_stack) THEN 0 ELSE ports[i]]
                /\ UNCHANGED <<address_stack, memory_space>>
          /\ \A i \in 0 .. NumPorts - 1 :
                ports'[i] # ports[i] => WritesPort(i)
         ]_vars

\* an IN on port 0, which held the 1 of a dropped guard, has pushed that 1
\* and left 0 in the port
C11_Witness ==
    /\ pc = "running"
    /\ last.act = "IN"
    /\ last.ds # <<>>
    /\ Top(last.ds) = 0
    /\ last.p0 = 1
    /\ Top(data_stack) = 1
    /\ ports[0] = 0

\* the number of complete words in the image file
FileWords == Len(file) \div 4

\* C12: the memory loaded from a file of n bytes has max(floor(n/4), the
\* least capacity) words: its first floor(n/4) words are the file's
\* consecutive groups of four bytes, each a little-endian word, in order (a
\* last group short of four bytes is left out, and is no error), and all its
\* other words are 0.
C12_LoadedImage ==
    [][pc = "start" =>
        /\ pc' = "idle"
        /\ Len(memory_space') =
               IF FileWords > MemSize THEN FileWords ELSE MemSize
        /\ \A k \in 1 .. Len(memory_space') :
               IF k <= FileWords
               THEN Bytes(memory_space'[k]) = SubSeq(file, 4 * k - 3, 4 * k)
               ELSE memory_space'[k] = 0
      ]_vars

\* a file of some words and three more bytes has been loaded, and padded
C12_Witness ==
    /\ last.act = "new"
    /\ last.bytes % 4 = 3
    /\ last.bytes > 4
    /\ Len(memory_space) = MemSize
    /\ memory_space[last.bytes \div 4] # 0
    /\ memory_space[last.bytes \div 4 + 1] = 0

\* next() is about to decode the DROP of a LIT v; DUP; DROP it has run so far:
\* the LIT is at ip - 3, v at ip - 2, the DUP at ip - 1; last.was.ds is the
\* data stack the LIT started from
AtDropOfLitDupDrop ==
    /\ Decodes(3)
    /\ last.act = "DUP"
    /\ last.ip = ip - 1
    /\ last.was.act = "LIT"
    /\ MemoryAt(cpu, ip - 3) = 1

\* C13 as stated: LIT v; DUP; DROP leaves the data stack at the depth it had
\* before the LIT; the DUP has left v on top and the DROP removes it.
C13_LitDupDropKeepsDepth ==
    [][AtDropOfLitDupDrop =>
        /\ Top(data_stack) = MemoryAt(cpu, ip - 2)
        /\ data_stack' = Pop(data_stack)
        /\ Len(data_stack') = Len(last.was.ds)
      ]_vars

\* C13: for every word v, LIT v; DUP; DROP leaves the data stack one entry
\* deeper than before the sequence, v on top of the entries it had: the depth
\* it had after the LIT; the DUP has left v as the top value above that and
\* the DROP removes it.
C13_LitDupDropLeavesLiteral ==
    [][AtDropOfLitDupDrop =>
        /\ data_stack = last.was.ds \o <<MemoryAt(cpu, ip - 2), MemoryAt(cpu, ip - 2)>>
        /\ data_stack' = Append(last.was.ds, MemoryAt(cpu, ip - 2))
        /\ Len(data_stack') = Len(last.ds)
        /\ pc' = "running"
        /\ ip' = ip + 1
      ]_vars

\* LIT 5; DUP; DROP has run on the data stack [3] and left [3, 5]
C13_Witness ==
    /\ pc = "running"
    /\ steps = 3
    /\ last.act = "DROP"
    /\ last.was.act = "DUP"
    /\ last.was.ds = <<3, 5>>
    /\ last.ds = <<3, 5, 5>>
    /\ data_stack = <<3, 5>>

\* next() is about to decode a SWAP with two entries to exchange
AtSwap == Decodes(4) /\ Len(data_stack) >= 2

\* C14: SWAP on [..., a, b], b on top, leaves [..., b, a], a on top: the two
\* entries on top are exchanged, the depth and the entries below are as they
\* were, and a second SWAP right after the first leaves the stack the first
\* one started from.
C14_SwapExchanges ==
    [][AtSwap =>
        /\ data_stack' = Replaced(<<OnTop, Below>>)
        /\ Continues
        /\ UNCHANGED <<address_stack, memory_space, ports>>
        /\ (last.act = "SWAP" /\ last.ip = ip - 1) => data_stack' = last.ds
      ]_vars

\* SWAP; SWAP has turned [3, -1] into [-1, 3] and back
C14_Witness ==
    /\ pc = "running"
    /\ last.act = "SWAP"
    /\ last.was.act = "SWAP"
    /\ last.was.ds = <<3, -1>>
    /\ last.ds = <<-1, 3>>
    /\ data_stack = <<3, -1>>

\* the mnemonics of the instruction set, as the arms of the match in
\* CPU::next name them: Mnemonics[k + 1] is the one of the opcode k
Mnemonics ==
    <<"NOP", "LIT", "DUP", "DROP", "SWAP", "PUSH", "POP", "LOOP", "JUMP",
      "RETURN", "GT_JUMP", "LT_JUMP", "NE_JUMP", "EQ_JUMP", "FETCH", "STORE",
      "ADD", "SUBTRACT", "MULTIPLY", "DIVMOD", "AND", "OR", "XOR", "SHL",
      "SHR", "ZERO_EXIT", "INC", "DEC", "IN", "OUT", "WAIT">>

\* C15: opcode_to_name gives every opcode 0..30 the mnemonic the instruction
\* set gives it and the arm of CPU::next implements (10 is GT_JUMP, 11 is
\* LT_JUMP), and every other word, a negative one too, "CALL".
C15_NamesMatchDispatch ==
    last.act = "opcode_to_name" =>
        last.name = IF last.opcode \in Opcodes
                    THEN Mnemonics[last.opcode + 1]
                    ELSE "CALL"

\* next() is about to decode this jump opcode, the word after it in the
\* memory, and the entries it pops on the data stack
AtJump(opcode, pops) ==
    /\ Decodes(opcode)
    /\ InMemory(cpu, ip + 1)
    /\ Len(data_stack) >= pops

\* the jump was taken: the word after the opcode is the next address decoded
\* and the entries popped are gone
JumpTaken(pops) ==
    /\ pc' = "running"
    /\ ip' = MemoryAt(cpu, ip + 1)
    /\ data_stack' = SubSeq(data_stack, 1, Len(data_stack) - pops)
    /\ UNCHANGED <<address_stack, memory_space, ports>>

\* the jump was not taken: the address after the operand word is the next
\* decoded and the two entries popped are gone
JumpNotTaken ==
    /\ pc' = "running"
    /\ ip' = ip + 2
    /\ data_stack' = Pop(Pop(data_stack))
    /\ UNCHANGED <<address_stack, memory_space, ports>>

\* the condition of a conditional jump on a (the top, popped first) and b
JumpCondition(opcode) ==
    CASE opcode = 10 -> Below > OnTop
      [] opcode = 11 -> Below < OnTop
      [] opcode = 12 -> OnTop # Below
      [] opcode = 13 -> OnTop = Below

\* the target t the build cannot jump to: t - 1 overflows
TargetOverflows == MemoryAt(cpu, ip + 1) = MinInt /\ overflow_checks

\* C16 as stated: with t in the word after the opcode, JUMP continues at t;
\* GT_JUMP, LT_JUMP, NE_JUMP and EQ_JUMP pop a then b and continue at t
\* exactly when b > a, b < a, a # b, a = b, and at p + 2 otherwise; the two
\* entries are popped either way.
C16_Jumps ==
    [][/\ AtJump(8, 0) => JumpTaken(0)
       /\ \A opcode \in 10 .. 13 :
             AtJump(opcode, 2) =>
                IF JumpCondition(opcode) THEN JumpTaken(2) ELSE JumpNotTaken
      ]_vars

\* C16: with t in the word after the opcode, and t # -2^31 or a build
\* without overflow checks (t - 1 panics otherwise): JUMP continues at t;
\* GT_JUMP, LT_JUMP, NE_JUMP and EQ_JUMP pop a then b and continue at t
\* exactly when b > a, b < a, a # b, a = b.  When their condition is false
\* they continue at p + 2, whatever t is.  The two entries are popped either
\* way.
C16_JumpsExceptMinInt ==
    [][/\ (AtJump(8, 0) /\ ~TargetOverflows) => JumpTaken(0)
       /\ \A opcode \in 10 .. 13 :
             AtJump(opcode, 2) =>
                IF JumpCondition(opcode)
                THEN ~TargetOverflows => JumpTaken(2)
                ELSE JumpNotTaken
      ]_vars

\* LT_JUMP with b = -1 below a = 3 has jumped to its target beyond the
\* memory and consumed both
C16_Witness ==
    /\ pc = "running"
    /\ last.act = "LT_JUMP"
    /\ last.ds = <<-1, 3>>
    /\ data_stack = <<>>
    /\ memory_space[last.ip + 2] = Beyond
    /\ ip = Beyond

\* next() is about to decode a ZERO_EXIT with d on top of the data stack
AtZeroExit == Decodes(25) /\ data_stack # <<>>

\* ZERO_EXIT has dropped the 0, popped the address r and gone on to r + 1
Exited ==
    /\ pc' = "running"
    /\ data_stack' = Pop(data_stack)
    /\ address_stack' = Pop(address_stack)
    /\ ip' = Top(address_stack) + 1
    /\ UNCHANGED <<memory_space, ports>>

\* ZERO_EXIT has left both stacks and gone on to p + 1
NotExited ==
    /\ pc' = "running"
    /\ ip' = ip + 1
    /\ UNCHANGED <<data_stack, address_stack, memory_space, ports>>

\* C17 as stated: ZERO_EXIT with d = 0 on top drops it, pops the top r of the
\* address stack and continues at r + 1, as RETURN does; with d # 0 it leaves
\* both stacks and continues at p + 1.  (ip holds r + 1 only when that is in
\* the range of i32.)
C17_ZeroExit ==
    [][AtZeroExit =>
        IF OnTop = 0
        THEN address_stack # <<>> =>
                (Top(address_stack) # MaxInt /\ Exited)
        ELSE NotExited
      ]_vars

\* C17: ZERO_EXIT with d = 0 on top drops it, pops the top r of the address
\* stack, r # 2^31 - 1, and continues at r + 1, as RETURN does; with d # 0 it
\* leaves both stacks and continues at p + 1.
C17_ZeroExitExceptMaxInt ==
    [][AtZeroExit =>
        IF OnTop = 0
        THEN (address_stack # <<>> /\ Top(address_stack) # MaxInt) => Exited
        ELSE NotExited
      ]_vars

\* ZERO_EXIT has dropped its 0, popped the address 3 and gone on to 4
C17_Witness ==
    /\ pc = "running"
    /\ last.act = "ZERO_EXIT"
    /\ last.ds = <<0>>
    /\ last.as = <<3>>
    /\ data_stack = <<>>
    /\ address_stack = <<>>
    /\ ip = 4

\* next() is about to decode a STORE with data and, on top, addr
AtStore == Decodes(15) /\ Len(data_stack) >= 2

\* next() is about to decode a FETCH with addr on top
AtFetch == Decodes(14) /\ data_stack # <<>>

\* next() is about to decode a FETCH of the addr a STORE has just written,
\* with only the LIT that pushes addr between the two
AtFetchAfterStore ==
    /\ AtFetch
    /\ last.act = "LIT"
    /\ last.was.act = "STORE"
    /\ Len(last.was.ds) >= 2
    /\ OnTop = Top(last.was.ds)

\* C18: STORE with [..., data, addr] and addr in the memory sets
\* memory[addr] = data and no other cell; no step changes the length of the
\* memory; a FETCH of addr pushes memory[addr], so after that STORE the data;
\* a FETCH or a STORE with addr outside the memory, negative or beyond it,
\* panics and leaves the memory as it was.
C18_StoreAndFetch ==
    [][/\ pc # "start" => Len(memory_space') = Len(memory_space)
       /\ (AtStore /\ InMemory(cpu, OnTop)) =>
             /\ memory_space' = [memory_space EXCEPT ![OnTop + 1] = Below]
             /\ data_stack' = Pop(Pop(data_stack))
             /\ Continues
       /\ (AtFetch /\ InMemory(cpu, OnTop)) =>
             /\ data_stack' = Append(Pop(data_stack), memory_space[OnTop + 1])
             /\ Continues
             /\ UNCHANGED memory_space
       /\ (AtFetchAfterStore /\ InMemory(cpu, OnTop)) =>
             Top(data_stack') = Top(Pop(last.was.ds))
       /\ ((AtStore \/ AtFetch) /\ ~InMemory(cpu, OnTop)) =>
             /\ pc' = "panicked"
             /\ UNCHANGED memory_space
      ]_vars

\* LIT 3; LIT 12; STORE; LIT 12; FETCH has stored 3 at 12 and fetched it
C18_Witness ==
    /\ pc = "running"
    /\ last.act = "FETCH"
    /\ last.was.act = "LIT"
    /\ last.ds = <<12>>
    /\ data_stack = <<3>>
    /\ memory_space[13] = 3
    /\ memory_space[12] = 0
    /\ memory_space[14] = 0

\* next() is about to decode one of the opcodes that push or pop the address
\* stack: PUSH, POP, RETURN, ZERO_EXIT over a 0, or a word that is a call
AtAddressStackOpcode ==
    /\ InNext
    /\ InMemory(cpu, ip)
    /\ \/ MemoryAt(cpu, ip) \in {5, 6, 9}
       \/ MemoryAt(cpu, ip) \notin Opcodes
       \/ MemoryAt(cpu, ip) = 25 /\ data_stack # <<>> /\ OnTop = 0

\* C19: only PUSH, POP, RETURN, ZERO_EXIT over a 0 and the implicit call
\* change the address stack; every other opcode and every step of the driver
\* (push_data, pop_data, the ports and the data stack in a scope) leaves it.
C19_AddressStackFrame ==
    [][address_stack' # address_stack => AtAddressStackOpcode]_vars

\* PUSH has moved a 0 to the address stack and a ZERO_EXIT over 3 has left it
C19_Witness ==
    /\ pc = "running"
    /\ last.act = "ZERO_EXIT"
    /\ last.was.act = "PUSH"
    /\ last.was.ds = <<3, 0>>
    /\ last.ds = <<3>>
    /\ last.as = <<0>>
    /\ address_stack = <<0>>

\* next() has just returned Some(Wait)
ReturnedWait == pc = "idle" /\ ret = "Wait" /\ last.act = "WAIT"

\* C20 as stated: once a Ports guard has been dropped, port 0 becomes 0 again
\* only by the guest: an IN that pops the port 0 or an OUT that writes 0 to
\* the port 0.
C20_Port0ZeroedByGuestOnly ==
    [][(handshake # "new" /\ ports[0] # 0 /\ ports'[0] = 0) =>
          (InNext /\ ZeroesPort0)]_vars

\* C20: from the drop of a Ports guard on, as long as the guest has not run
\* an IN that pops the port 0 or an OUT that writes 0 to the port 0, port 0
\* is not 0 outside the scope of a later guard (in which the driver may
\* write 0, and whose drop writes 1 again), and next() does not return
\* Some(Wait).
C20_Port0ZeroedByGuestOutsideScopes ==
    handshake = "released" =>
        /\ pc # "scoped" => ports[0] # 0
        /\ ~ReturnedWait

\* after the drop of a guard, the guest has read port 0 with IN and next()
\* has returned Some(Wait) from the WAIT after it
C20_Witness ==
    /\ handshake = "zeroed"
    /\ ReturnedWait
    /\ last.was.act = "IN"
    /\ ports[0] = 0
    /\ Top(data_stack) = 1

====
